---- MODULE Spec2Model ----
(***************************************************************************)
(* Presentational-hint synthesis for legacy HTML attributes                *)
(* (components/style/legacy.rs): `<td width>` and `<input size>` are       *)
(* turned into a synthetic `width` declaration block that is pushed onto   *)
(* the caller's matching_rules_list, and the caller's `shareable` flag is  *)
(* cleared whenever a block was pushed.                                    *)
(*                                                                         *)
(* One invocation is modelled statement by statement (match, vec_push,     *)
(* `*shareable = false`, return) so that invocations running on different  *)
(* workers of a parallel matching pass can interleave.                     *)
(***************************************************************************)
EXTENDS Integers, Sequences, FiniteSets, TLC

\* ---------------------------------------------------------------- bounds
\* percentages of a `width` attribute range over 0..MaxPct
MaxPct == 1
\* lengths of a `width` attribute range over Au(0)..Au(MaxLen)
MaxLen == 1
\* values of a `size` attribute range over 0..MaxSize
MaxSize == 1
\* a caller reuses its list for another invocation only below this length
MaxRules == 2

\* the workers of the matching pass
Workers == {1, 2}

\* ------------------------------------------------------- value universe
\* Option<T>
None == <<"None">>
Some(v) == <<"Some", v>>

\* servo_util::str::LengthOrPercentageOrAuto
AutoLpa == <<"AutoLpa">>
PercentageLpa(percentage) == <<"PercentageLpa", percentage>>
LengthLpa(length) == <<"LengthLpa", length>>

\* servo_util::geometry::Au, a length in app units
Au(n) == <<"Au", n>>
from_px(px) == Au(px * 60)

\* properties::specified
LPA_Percentage(percentage) == <<"LPA_Percentage", percentage>>
LPA_Length(length) == <<"LPA_Length", length>>
Au_(au) == <<"Au_", au>>
ServoCharacterWidth(value) == <<"ServoCharacterWidth", value>>

\* properties::{SpecifiedValue, WidthDeclaration}
SpecifiedValue(v) == <<"SpecifiedValue", v>>
WidthDeclaration(v) == <<"WidthDeclaration", v>>

\* selector_matching::DeclarationBlock::from_declaration
from_declaration(declaration) == [declarations |-> <<declaration>>]

\* VecLike::vec_push
vec_push(vec, value) == Append(vec, value)

\* ------------------------------------------------------------- elements
LocalNames == {"td", "input", "div"}
WidthAttributes ==
    {AutoLpa} \cup {PercentageLpa(p) : p \in 0..MaxPct}
              \cup {LengthLpa(Au(l)) : l \in 0..MaxLen}
\* HTML5 2.4.4.2: a non-negative integer
SizeAttributes == {None} \cup {Some(v) : v \in 0..MaxSize}
TypeAttributes == {None, Some("text"), Some("password"), Some("checkbox")}

\* what the TElement / TElementAttributes accessors of one element return
Elements ==
    [local_name : LocalNames, width : WidthAttributes,
     size : SizeAttributes, type : TypeAttributes]

\* the elements that carry only attributes their tag gives a meaning to,
\* and unknown tags with a width
PlainElements ==
    {e \in Elements :
        /\ e.local_name # "input" => (e.size = None /\ e.type = None)
        /\ e.local_name = "input" => e.width = AutoLpa}

NoNode == [local_name |-> "", width |-> AutoLpa, size |-> None, type |-> None]

get_local_name(element) == element.local_name
get_length_attribute(element) == element.width
get_integer_attribute(element) == element.size
get_attr_type(element) == element.type

\* blocks the selector matcher collected before the synthesizer runs
RuleBlock(i) == [declarations |-> <<<<"MatchedRule", i>>>>]
PriorLists ==
    {<<>>, <<RuleBlock(1)>>, <<RuleBlock(1), RuleBlock(2)>>,
     <<RuleBlock(2), RuleBlock(1)>>}

\* ------------------------------------------------- the match expression
NoHint == <<"NoHint">>

\* mutant: the percentage arm builds a length instead of a percentage
TdWidthValue_PercentageAsLength(element) ==
    LET attr == get_length_attribute(element) IN
    CASE attr = AutoLpa -> NoHint
      [] attr[1] = "PercentageLpa" -> LPA_Length(Au_(Au(attr[2])))
      [] attr[1] = "LengthLpa" -> LPA_Length(Au_(attr[2]))

\* mutant: the length arm is empty, like the auto arm
TdWidthValue_LengthIgnored(element) ==
    LET attr == get_length_attribute(element) IN
    CASE attr = AutoLpa -> NoHint
      [] attr[1] = "PercentageLpa" -> LPA_Percentage(attr[2])
      [] attr[1] = "LengthLpa" -> NoHint

\* the `td` arm: match element.get_length_attribute(WidthLengthAttribute)
TdWidthValue(element) ==
    LET attr == get_length_attribute(element) IN
    CASE attr = AutoLpa -> NoHint
      [] attr[1] = "PercentageLpa" -> LPA_Percentage(attr[2])
      [] attr[1] = "LengthLpa" -> LPA_Length(Au_(attr[2]))

\* mutant: only `text` selects character widths, `password` is forgotten
InputSizeUnit_TextOnly(element, value) ==
    IF get_attr_type(element) = Some("text")
    THEN ServoCharacterWidth(value)
    ELSE Au_(from_px(value))

\* the unit of `<input size>`: match element.get_attr(&ns!(""), &atom!("type"))
InputSizeUnit(element, value) ==
    IF get_attr_type(element) \in {Some("text"), Some("password")}
    THEN ServoCharacterWidth(value)
    ELSE Au_(from_px(value))

\* mutant: the `if value != 0` guard is missing
InputWidthValue_NoZeroGuard(element) ==
    LET attr == get_integer_attribute(element) IN
    IF attr # None
    THEN LPA_Length(InputSizeUnit(element, attr[2]))
    ELSE NoHint

\* the `input` arm: match element.get_integer_attribute(SizeIntegerAttribute)
InputWidthValue(element) ==
    LET attr == get_integer_attribute(element) IN
    IF attr # None /\ attr[2] # 0
    THEN LPA_Length(InputSizeUnit(element, attr[2]))
    ELSE NoHint

\* mutant: the `input` arm has no guard on the name and catches every other tag
WidthValue_InputArmUnguarded(element) ==
    CASE get_local_name(element) = "td" -> TdWidthValue(element)
      [] OTHER -> InputWidthValue(element)

\* match element.get_local_name()
WidthValue(element) ==
    CASE get_local_name(element) = "td" -> TdWidthValue(element)
      [] get_local_name(element) = "input" -> InputWidthValue(element)
      [] OTHER -> NoHint

\* the block an arm pushes
HintBlock(width_value) ==
    from_declaration(WidthDeclaration(SpecifiedValue(width_value)))

\* one whole invocation run by itself: the outputs as a function of the inputs
Synthesize(element, rules, flag) ==
    IF WidthValue(element) = NoHint
    THEN [matching_rules_list |-> rules, shareable |-> flag]
    ELSE [matching_rules_list |-> vec_push(rules, HintBlock(WidthValue(element))),
          shareable |-> FALSE]

\* ---------------------------------------------------------------- state
VARIABLES
    workers,              \* the workers the matching pass runs
    pc,                   \* pc[w]: where worker w is in its invocation
    node,                 \* node[w]: the element worker w was called for
    width_value,          \* width_value[w]: the local of the arm taken
    matching_rules_list,  \* matching_rules_list[w]: the caller's list
    shareable,            \* shareable[w]: the caller's flag
    entry_list,           \* the list as it was when the call began
    entry_shareable       \* the flag as it was when the call began

vars == <<workers, pc, node, width_value, matching_rules_list, shareable,
          entry_list, entry_shareable>>

Common ==
    /\ pc = [w \in Workers |-> "idle"]
    /\ node = [w \in Workers |-> NoNode]
    /\ width_value = [w \in Workers |-> NoHint]
    /\ matching_rules_list = [w \in Workers |-> <<>>]
    /\ shareable = [w \in Workers |-> TRUE]
    /\ entry_list = [w \in Workers |-> <<>>]
    /\ entry_shareable = [w \in Workers |-> TRUE]

\* sequential matching pass: one worker
Init == workers = {1} /\ Common

\* parallel matching pass: every worker
ParInit == workers = Workers /\ Common

\* the caller invokes the synthesizer for `element` with its own containers
CallWith(w, elements, lists) ==
    /\ pc[w] = "idle"
    /\ \E element \in elements, rules \in lists, flag \in BOOLEAN :
         /\ node' = [node EXCEPT ![w] = element]
         /\ matching_rules_list' = [matching_rules_list EXCEPT ![w] = rules]
         /\ shareable' = [shareable EXCEPT ![w] = flag]
         /\ entry_list' = [entry_list EXCEPT ![w] = rules]
         /\ entry_shareable' = [entry_shareable EXCEPT ![w] = flag]
    /\ pc' = [pc EXCEPT ![w] = "match"]
    /\ UNCHANGED <<workers, width_value>>

\* called with a list of selector-matched blocks and a flag of either value
Call(w) == CallWith(w, Elements, PriorLists)

\* a worker of the parallel pass is called with an empty list of its own
ParCall(w) == CallWith(w, PlainElements, {<<>>})

\* the caller invokes the synthesizer again with the containers it already
\* passed to an earlier invocation
Recall(w) ==
    /\ pc[w] = "idle"
    /\ Len(matching_rules_list[w]) < MaxRules
    /\ \E element \in Elements :
         node' = [node EXCEPT ![w] = element]
    /\ entry_list' = [entry_list EXCEPT ![w] = matching_rules_list[w]]
    /\ entry_shareable' = [entry_shareable EXCEPT ![w] = shareable[w]]
    /\ pc' = [pc EXCEPT ![w] = "match"]
    /\ UNCHANGED <<workers, width_value, matching_rules_list, shareable>>

\* mutant: the flag is cleared after the match, whichever arm was taken
Match_ClearAlways(w) ==
    /\ pc[w] = "match"
    /\ IF WidthValue(node[w]) = NoHint
       THEN /\ pc' = [pc EXCEPT ![w] = "clear"]
            /\ UNCHANGED width_value
       ELSE /\ width_value' = [width_value EXCEPT ![w] = WidthValue(node[w])]
            /\ pc' = [pc EXCEPT ![w] = "push"]
    /\ UNCHANGED <<workers, node, matching_rules_list, shareable,
                   entry_list, entry_shareable>>

\* mutant: the arms without a hint set the flag back to true
Match_ResetShareable(w) ==
    /\ pc[w] = "match"
    /\ IF WidthValue(node[w]) = NoHint
       THEN /\ pc' = [pc EXCEPT ![w] = "ret"]
            /\ shareable' = [shareable EXCEPT ![w] = TRUE]
            /\ UNCHANGED width_value
       ELSE /\ width_value' = [width_value EXCEPT ![w] = WidthValue(node[w])]
            /\ pc' = [pc EXCEPT ![w] = "push"]
            /\ UNCHANGED shareable
    /\ UNCHANGED <<workers, node, matching_rules_list,
                   entry_list, entry_shareable>>

\* the nested match: no arm with a body, or the arm's `let` binding
Match(w) ==
    /\ pc[w] = "match"
    /\ IF WidthValue(node[w]) = NoHint
       THEN /\ pc' = [pc EXCEPT ![w] = "ret"]
            /\ UNCHANGED width_value
       ELSE /\ width_value' = [width_value EXCEPT ![w] = WidthValue(node[w])]
            /\ pc' = [pc EXCEPT ![w] = "push"]
    /\ UNCHANGED <<workers, node, matching_rules_list, shareable,
                   entry_list, entry_shareable>>

\* mutant: the block is inserted at the front of the list
Push_AtFront(w) ==
    /\ pc[w] = "push"
    /\ matching_rules_list' =
         [matching_rules_list EXCEPT
            ![w] = <<HintBlock(width_value[w])>> \o matching_rules_list[w]]
    /\ pc' = [pc EXCEPT ![w] = "clear"]
    /\ UNCHANGED <<workers, node, width_value, shareable,
                   entry_list, entry_shareable>>

\* mutant: every worker pushes onto one list shared by the pass
Push_SharedList(w) ==
    /\ pc[w] = "push"
    /\ matching_rules_list' =
         [matching_rules_list EXCEPT
            ![1] = vec_push(matching_rules_list[1], HintBlock(width_value[w]))]
    /\ pc' = [pc EXCEPT ![w] = "clear"]
    /\ UNCHANGED <<workers, node, width_value, shareable,
                   entry_list, entry_shareable>>

\* matching_rules_list.vec_push(DeclarationBlock::from_declaration(...))
Push(w) ==
    /\ pc[w] = "push"
    /\ matching_rules_list' =
         [matching_rules_list EXCEPT
            ![w] = vec_push(matching_rules_list[w], HintBlock(width_value[w]))]
    /\ pc' = [pc EXCEPT ![w] = "clear"]
    /\ UNCHANGED <<workers, node, width_value, shareable,
                   entry_list, entry_shareable>>

\* mutant: one flag is shared by the pass, clearing it clears it for everyone
Clear_SharedFlag(w) ==
    /\ pc[w] = "clear"
    /\ shareable' = [v \in Workers |-> FALSE]
    /\ pc' = [pc EXCEPT ![w] = "ret"]
    /\ UNCHANGED <<workers, node, width_value, matching_rules_list,
                   entry_list, entry_shareable>>

\* *shareable = false
Clear(w) ==
    /\ pc[w] = "clear"
    /\ shareable' = [shareable EXCEPT ![w] = FALSE]
    /\ pc' = [pc EXCEPT ![w] = "ret"]
    /\ UNCHANGED <<workers, node, width_value, matching_rules_list,
                   entry_list, entry_shareable>>

\* the function returns; its borrows and locals end
Return(w) ==
    /\ pc[w] = "ret"
    /\ pc' = [pc EXCEPT ![w] = "idle"]
    /\ node' = [node EXCEPT ![w] = NoNode]
    /\ width_value' = [width_value EXCEPT ![w] = NoHint]
    /\ entry_list' = [entry_list EXCEPT ![w] = <<>>]
    /\ entry_shareable' = [entry_shareable EXCEPT ![w] = TRUE]
    /\ UNCHANGED <<workers, matching_rules_list, shareable>>

Next ==
    \E w \in workers :
        \/ Call(w)
        \/ Recall(w)
        \/ Match(w)
        \/ Push(w)
        \/ Clear(w)
        \/ Return(w)

ParNext ==
    \E w \in workers :
        \/ ParCall(w)
        \/ Match(w)
        \/ Push(w)
        \/ Clear(w)
        \/ Return(w)

Spec == Init /\ [][Next]_vars

ParSpec == ParInit /\ [][ParNext]_vars

\* ------------------------------------------------------------ properties
InCall(w) == pc[w] \in {"match", "push", "clear", "ret"}
Returned(w) == pc[w] = "ret"

\* the single-declaration block carrying `width: v`
WidthBlock(v) == [declarations |-> <<<<"WidthDeclaration", <<"SpecifiedValue", v>>>>>>]
IsWidthBlock(b) ==
    /\ Len(b.declarations) = 1
    /\ b.declarations[1][1] = "WidthDeclaration"

Appended(w, v) ==
    /\ matching_rules_list[w] = entry_list[w] \o <<WidthBlock(v)>>
    /\ shareable[w] = FALSE

Untouched(w) ==
    /\ matching_rules_list[w] = entry_list[w]
    /\ shareable[w] = entry_shareable[w]

\* C1: an `input` with a nonzero `size` v gets exactly one width block
\* appended and shareable cleared; the value is v character widths for
\* type text or password, and the length of v px for any other type or none.
C1_InputSizeHint ==
    \A w \in Workers :
        (/\ Returned(w)
         /\ node[w].local_name = "input"
         /\ node[w].size # None
         /\ node[w].size[2] # 0)
        => LET v == node[w].size[2]
               chars == node[w].type = <<"Some", "text">>
                        \/ node[w].type = <<"Some", "password">>
           IN  IF chars
               THEN Appended(w, <<"LPA_Length", <<"ServoCharacterWidth", v>>>>)
               ELSE Appended(w, <<"LPA_Length", <<"Au_", from_px(v)>>>>)

C1_Witness ==
    \E w \in Workers :
        /\ Returned(w)
        /\ node[w].local_name = "input"
        /\ node[w].size = Some(1)
        /\ node[w].type = Some("password")
        /\ entry_shareable[w]
        /\ Len(entry_list[w]) = 2
        /\ Len(matching_rules_list[w]) = 3

\* C2: a `td` whose width is Percentage(p) gets exactly one width block with
\* the percentage p appended, and shareable is false afterwards.
C2_TdPercentage ==
    \A w \in Workers :
        (/\ Returned(w)
         /\ node[w].local_name = "td"
         /\ node[w].width[1] = "PercentageLpa")
        => Appended(w, <<"LPA_Percentage", node[w].width[2]>>)

C2_Witness ==
    \E w \in Workers :
        /\ Returned(w)
        /\ node[w].local_name = "td"
        /\ node[w].width = PercentageLpa(1)
        /\ entry_shareable[w]
        /\ entry_list[w] # <<>>
        /\ Len(matching_rules_list[w]) = Len(entry_list[w]) + 1

\* C3: a `td` whose width is Length(l) gets exactly one width block with the
\* absolute length l appended, and shareable is false afterwards.
C3_TdLength ==
    \A w \in Workers :
        (/\ Returned(w)
         /\ node[w].local_name = "td"
         /\ node[w].width[1] = "LengthLpa")
        => Appended(w, <<"LPA_Length", <<"Au_", node[w].width[2]>>>>)

C3_Witness ==
    \E w \in Workers :
        /\ Returned(w)
        /\ node[w].local_name = "td"
        /\ node[w].width = LengthLpa(Au(1))
        /\ entry_shareable[w]
        /\ entry_list[w] # <<>>
        /\ Len(matching_rules_list[w]) = Len(entry_list[w]) + 1

C5_InputNoSizeNoOp ==
    \A w \in Workers :
        (/\ Returned(w)
         /\ node[w].local_name = "input"
         /\ (node[w].size = None \/ node[w].size = <<"Some", 0>>))
        => Untouched(w)

C5_Witness ==
    \E w \in Workers :
        /\ Returned(w)
        /\ node[w].local_name = "input"
        /\ node[w].size = Some(0)
        /\ node[w].type = Some("text")
        /\ entry_shareable[w]
        /\ shareable[w]
        /\ entry_list[w] # <<>>

\* C6: for a `td` whose width is Auto the list and the flag are left as they
\* were.
C6_TdAutoNoOp ==
    \A w \in Workers :
        (/\ Returned(w)
         /\ node[w].local_name = "td"
         /\ node[w].width = <<"AutoLpa">>)
        => Untouched(w)

C6_Witness ==
    \E w \in Workers :
        /\ Returned(w)
        /\ node[w].local_name = "td"
        /\ node[w].width = AutoLpa
        /\ node[w].size = Some(1)
        /\ entry_shareable[w]
        /\ shareable[w]
        /\ entry_list[w] # <<>>

\* C7: shareable is monotonic: a flag that is false stays false through every
\* step of an invocation and through every later invocation given the same
\* flag (steps inside a call, and the call that passes the same flag again).
C7_ShareableMonotonic ==
    [][\A w \in Workers :
          (shareable[w] = FALSE /\ (pc[w] # "idle" \/ Recall(w)))
          => shareable'[w] = FALSE]_vars

C7_Witness ==
    \E w \in Workers :
        /\ Returned(w)
        /\ entry_shareable[w] = FALSE
        /\ shareable[w] = FALSE
        /\ WidthValue(node[w]) = NoHint
        /\ \E i \in 1..Len(entry_list[w]) : IsWidthBlock(entry_list[w][i])

\* C8: an invocation is append-only and appends at most one block: at every
\* point of the call the list is the list as passed in, followed by nothing
\* or by one width block at the end.
C8_AppendOnlyAtMostOne ==
    \A w \in Workers :
        InCall(w) =>
            \/ matching_rules_list[w] = entry_list[w]
            \/ /\ Len(matching_rules_list[w]) = Len(entry_list[w]) + 1
               /\ SubSeq(matching_rules_list[w], 1, Len(entry_list[w]))
                    = entry_list[w]
               /\ IsWidthBlock(matching_rules_list[w][Len(matching_rules_list[w])])

C8_Witness ==
    \E w \in Workers :
        /\ Returned(w)
        /\ Len(entry_list[w]) = 2
        /\ entry_list[w][1] # entry_list[w][2]
        /\ Len(matching_rules_list[w]) = 3

\* C9: invocations running at the same time for different elements, each
\* with its own list and flag, do not interfere: whatever the interleaving,
\* an invocation returns with the list and flag it produces when run alone.
C9_NoInterference ==
    \A w \in Workers :
        Returned(w) =>
            LET alone == Synthesize(node[w], entry_list[w], entry_shareable[w])
            IN  /\ matching_rules_list[w] = alone.matching_rules_list
                /\ shareable[w] = alone.shareable

C9_Witness ==
    /\ Returned(1)
    /\ entry_shareable[1]
    /\ shareable[1]
    /\ matching_rules_list[1] = <<>>
    /\ pc[2] = "ret"
    /\ node[2] # node[1]
    /\ entry_shareable[2]
    /\ ~shareable[2]
    /\ Len(matching_rules_list[2]) = 1

\* C10: the synthesizer is a function of the element state: two invocations
\* on the same element snapshot, each with an empty list of its own and the
\* same initial flag, return the same declarations and the same flag.
C10_Deterministic ==
    \A w1 \in Workers, w2 \in Workers :
        (/\ Returned(w1) /\ Returned(w2)
         /\ node[w1] = node[w2]
         /\ entry_list[w1] = <<>> /\ entry_list[w2] = <<>>
         /\ entry_shareable[w1] = entry_shareable[w2])
        => /\ matching_rules_list[w1] = matching_rules_list[w2]
           /\ shareable[w1] = shareable[w2]

C10_Witness ==
    /\ Returned(1) /\ Returned(2)
    /\ node[1] = node[2]
    /\ node[1].local_name = "input"
    /\ entry_shareable[1] /\ entry_shareable[2]
    /\ Len(matching_rules_list[1]) = 1
    /\ Len(matching_rules_list[2]) = 1

====
